---- MODULE Spec2Model ----
(***************************************************************************)
(* Lifecycle and concurrency model of the gojieba bridge (src/jieba.go):   *)
(* handles created by NewJieba, the process-wide instance behind           *)
(* GetSharedInstance, the one-shot Free, the freed guard of the query      *)
(* operations and the finalizer registered on every handle.                *)
(*                                                                         *)
(* Goroutines are the processes 1..NumProcs.  Every statement of the       *)
(* source that reads or writes shared memory (the freed flag, the native   *)
(* pointer x.jieba, the finalizer table, sharedInstance, the Once and the  *)
(* RWMutex) is one step of the goroutine executing it; statements that     *)
(* touch only locals or freshly allocated memory are folded into the       *)
(* neighbouring step.                                                      *)
(*                                                                         *)
(* Those folded statements -- the C allocations, deferred releases and     *)
(* result conversion of the array-returning methods, cwordweights among    *)
(* them -- are private to one call and are followed on their own in        *)
(* QuerySpec.                                                              *)
(***************************************************************************)
EXTENDS Integers, FiniteSets, Sequences, TLC

\* ------------------------------------------------------------------ bounds
NumProcs == 2          \* goroutines calling into the package
MaxHandles == 2        \* Jieba structs ever allocated (handles are not reused)

Procs == 1..NumProcs
Handles == 1..MaxHandles

NULL == 0              \* the nil C.Jieba pointer
NIL == 0               \* the nil *Jieba

\* ------------------------------------------------------------ dictionaries
\* File-system paths are small integers.  The five default dictionaries
\* exist, path 8 is an existing user dictionary; 6 and 7 do not exist.
DefaultPaths == <<1, 2, 3, 4, 5>>
ExistingFiles == {1, 2, 3, 4, 5, 8}
NoPath == 0

\* The argument lists callers pass: none, a valid override, one missing
\* file, two missing files.
PathArgs == { <<>>, <<1, 2, 8, 4, 5>>, <<1, 2, 6, 4, 5>>, <<7, 2, 3, 4, 6>> }

\* getDictPaths: no argument selects the defaults, five select themselves.
getDictPaths(paths) == IF Len(paths) = 0 THEN DefaultPaths ELSE paths

\* os.Stat + os.IsNotExist.
IsNotExist(path) == path \notin ExistingFiles

\* A validation that stats the main dictionary only.
FirstMissingMainOnly(dictpaths) ==
    IF IsNotExist(dictpaths[1]) THEN dictpaths[1] ELSE NoPath

\* The loop of NewJieba over dictpaths: the first path, in order, that does
\* not exist (NoPath when the loop falls through).
FirstMissing(dictpaths) ==
    IF \E i \in 1..Len(dictpaths) : IsNotExist(dictpaths[i])
    THEN LET i == CHOOSE k \in 1..Len(dictpaths) :
                     /\ IsNotExist(dictpaths[k])
                     /\ \A m \in 1..(k - 1) : ~IsNotExist(dictpaths[m])
         IN dictpaths[i]
    ELSE NoPath

\* ---------------------------------------------------------------- operations
GuardedOps == {"Cut", "CutAll", "CutForSearch", "Tag"}
UnguardedQueryOps == {"Tokenize", "Extract", "ExtractWithWeight"}
DictOps == {"AddWord", "AddWordEx", "RemoveWord"}
QueryOps == GuardedOps \cup UnguardedQueryOps
UnguardedOps == UnguardedQueryOps \cup DictOps

VARIABLES
    pc,              \* pc[p]: the statement goroutine p is at
    op,              \* op[p]: the exported function p is executing / has executed
    x,               \* x[p]: the receiver, or the handle being built / returned
    args,            \* args[p]: the paths passed to NewJieba / GetSharedInstance
    outcome,         \* outcome[p]: how the finished call ended
    nref,            \* nref[p]: what the pointer handed to the engine pointed to
    badpath,         \* badpath[p]: the path named by a "does not exist" panic
    afterFree,       \* afterFree[p]: the call began on an already freed handle
    raced,           \* raced[p]: the call entered the Once while it was running
    hstate,          \* hstate[h]: "unalloc" | "building" | "live" | "garbage"
    jieba,           \* jieba[h]: the field x.jieba (an engine id, or NULL)
    freed,           \* freed[h]: the field x.freed
    finalizer,       \* finalizer[h]: the finalizer (*Jieba).Free is set on h
    finalized,       \* handles whose finalizer the runtime has run
    created,         \* created[e]: number of C.NewJieba calls that made engine e
    released,        \* released[e]: number of C.FreeJieba calls on engine e
    sharedPaths,     \* the paths the shared instance's engine was initialised with
    sharedInstance,  \* the package variable sharedInstance
    once,            \* sharedInstanceOnce: "init" | "running" | "done"
    onceRuns,        \* number of times the Once ran its function
    readers,         \* goroutines holding sharedInstanceLock for reading
    \* One array-returning call followed statement by statement (QuerySpec):
    fn,              \* the method executing
    stmt,            \* position in Program(fn)
    status,          \* "idle" | "running" | "unwinding" | "panicking" |
                     \* "returned" | "panicked" | "crashed"
    rfreed,          \* what the call loads from x.freed
    rref,            \* what x.jieba points to when the call loads it
    cstrAllocs,      \* C.CString allocations made by the call
    cstrFrees,       \* C.free calls on cstr
    words,           \* the result array the engine returned
    wordsAllocs,     \* result arrays the engine allocated for the call
    wordsFrees,      \* releases of the result array
    deferred,        \* the deferred calls, last registered first
    res,             \* the converted result
    lastRead,        \* position of the last record the converter read
    readFreed        \* the converter read the result array after its release

procVars == <<pc, op, x, args, outcome, nref, badpath, afterFree, raced>>
heapVars == <<hstate, jieba, freed, finalizer, finalized>>
nativeVars == <<created, released, sharedPaths>>
sharedVars == <<sharedInstance, once, onceRuns, readers>>
frameVars == <<fn, stmt, status, rfreed, rref, cstrAllocs, cstrFrees, words,
               wordsAllocs, wordsFrees, deferred, res, lastRead, readFreed>>
libVars == <<procVars, heapVars, nativeVars, sharedVars>>
vars == <<pc, op, x, args, outcome, nref, badpath, afterFree, raced, hstate,
          jieba, freed, finalizer, finalized, created, released, sharedPaths,
          sharedInstance, once, onceRuns, readers, frameVars>>

\* The package before any call.
LibInit ==
    /\ pc = [p \in Procs |-> "idle"]
    /\ op = [p \in Procs |-> "none"]
    /\ x = [p \in Procs |-> NIL]
    /\ args = [p \in Procs |-> <<>>]
    /\ outcome = [p \in Procs |-> "none"]
    /\ nref = [p \in Procs |-> "none"]
    /\ badpath = [p \in Procs |-> NoPath]
    /\ afterFree = [p \in Procs |-> FALSE]
    /\ raced = [p \in Procs |-> FALSE]
    /\ hstate = [h \in Handles |-> "unalloc"]
    /\ jieba = [h \in Handles |-> NULL]
    /\ freed = [h \in Handles |-> 0]
    /\ finalizer = [h \in Handles |-> FALSE]
    /\ finalized = {}
    /\ created = [h \in Handles |-> 0]
    /\ released = [h \in Handles |-> 0]
    /\ sharedPaths = <<>>
    /\ sharedInstance = NIL
    /\ once = "init"
    /\ onceRuns = 0
    /\ readers = {}

\* No call is being followed.
FrameIdle ==
    /\ fn = "none"
    /\ stmt = 0
    /\ status = "idle"
    /\ rfreed = 0
    /\ rref = "none"
    /\ cstrAllocs = 0
    /\ cstrFrees = 0
    /\ words = <<>>
    /\ wordsAllocs = 0
    /\ wordsFrees = 0
    /\ deferred = <<>>
    /\ res = <<>>
    /\ lastRead = 0
    /\ readFreed = FALSE

Init == LibInit /\ FrameIdle

\* --------------------------------------------------------------- helpers
\* Goroutine p calls exported function o on receiver h with paths a and
\* reaches statement `where`.
Begin(p, o, h, a, where, af, rc) ==
    /\ pc' = [pc EXCEPT ![p] = where]
    /\ op' = [op EXCEPT ![p] = o]
    /\ x' = [x EXCEPT ![p] = h]
    /\ args' = [args EXCEPT ![p] = a]
    /\ afterFree' = [afterFree EXCEPT ![p] = af]
    /\ raced' = [raced EXCEPT ![p] = rc]

\* The call of p moves on to statement `where`, now holding handle h.
Goto(p, where, h) ==
    /\ pc' = [pc EXCEPT ![p] = where]
    /\ x' = [x EXCEPT ![p] = h]
    /\ UNCHANGED <<op, args, outcome, nref, badpath, afterFree, raced>>

\* The result of a call; the goroutine keeps it until Return.
Result(p, how, ref, path) ==
    /\ outcome' = [outcome EXCEPT ![p] = how]
    /\ nref' = [nref EXCEPT ![p] = ref]
    /\ badpath' = [badpath EXCEPT ![p] = path]

\* The call of p ends.
Finish(p, h, how, ref, path) ==
    /\ pc' = [pc EXCEPT ![p] = "done"]
    /\ x' = [x EXCEPT ![p] = h]
    /\ Result(p, how, ref, path)
    /\ UNCHANGED <<op, args, afterFree, raced>>

\* Handles not yet allocated, and the allocations already under way.
FreeSlots == {h \in Handles : hstate[h] = "unalloc"}
Allocating == {p \in Procs : pc[p] = "nj_native"}
CanAllocate == Cardinality(FreeSlots) > Cardinality(Allocating)
NewHandle == CHOOSE h \in FreeSlots : \A g \in FreeSlots : h <= g

\* What the engine is handed when it is called with pointer ref.
RefKind(ref) ==
    IF ref = NULL THEN "null"
    ELSE IF released[ref] > 0 THEN "released"
    ELSE "live"

\* A Free call that won the compare-and-swap on h has not returned yet.
InFree(h) == \E p \in Procs : pc[p] \in {"fr_native", "fr_nil", "fr_clearfin"} /\ x[p] = h

\* The Free call that set the freed flag of h has returned.
FreeCompleted(h) == freed[h] # 0 /\ ~InFree(h)

\* -------------------------------------------------------------- NewJieba
\* NewJieba, lines 42-50: resolve the paths and stat each of them; panic on
\* the first that does not exist.
CallNewJieba(p, paths) ==
    /\ pc[p] = "idle"
    /\ LET missing == FirstMissing(getDictPaths(paths)) IN
        IF missing # NoPath
        THEN /\ Begin(p, "NewJieba", NIL, paths, "done", FALSE, FALSE)
             /\ Result(p, "panic_missing", "none", missing)
        ELSE /\ CanAllocate
             /\ Begin(p, "NewJieba", NIL, paths, "nj_native", FALSE, FALSE)
             /\ UNCHANGED <<outcome, nref, badpath>>
    /\ UNCHANGED <<heapVars, nativeVars, sharedVars>>
    /\ UNCHANGED frameVars

\* NewJieba, lines 52-67: C.NewJieba with the five resolved paths and the
\* allocation of the Jieba struct {engine, 0}.  Runs for a direct call and
\* inside the Once alike.
NativeNewJieba(p) ==
    /\ pc[p] = "nj_native"
    /\ LET h == NewHandle IN
        /\ hstate' = [hstate EXCEPT ![h] = "building"]
        /\ jieba' = [jieba EXCEPT ![h] = h]
        /\ freed' = [freed EXCEPT ![h] = 0]
        /\ created' = [created EXCEPT ![h] = @ + 1]
        /\ sharedPaths' = IF op[p] = "GetSharedInstance"
                          THEN getDictPaths(args[p]) ELSE sharedPaths
        /\ Goto(p, "nj_setfin", h)
    /\ UNCHANGED <<finalizer, finalized, released, sharedVars>>
    /\ UNCHANGED frameVars

\* NewJieba, lines 69-70: runtime.SetFinalizer(jieba, (*Jieba).Free) and the
\* return.  A direct call hands the handle to its caller; inside the Once
\* the result is stored in sharedInstance (line 93).
SetFinalizerFree(p) ==
    /\ pc[p] = "nj_setfin"
    /\ finalizer' = [finalizer EXCEPT ![x[p]] = TRUE]
    /\ IF op[p] = "GetSharedInstance"
       THEN /\ sharedInstance' = x[p]
            /\ Goto(p, "once_clearfin", x[p])
            /\ UNCHANGED <<hstate>>
       ELSE /\ hstate' = [hstate EXCEPT ![x[p]] = "live"]
            /\ Finish(p, x[p], "ret", "none", NoPath)
            /\ UNCHANGED <<sharedInstance>>
    /\ UNCHANGED <<jieba, freed, finalized, nativeVars, once, onceRuns, readers>>
    /\ UNCHANGED frameVars

\* ------------------------------------------------------ GetSharedInstance
\* A Once that runs its function again on a call made after it has returned.
OnceRunsAgain(state) == state \in {"init", "done"}

\* sync.Once.Do runs its function for the first caller only.
OnceRunsFunction(state) == state = "init"

\* A Once that lets the other callers through while its function still runs.
OncePassesWhileRunning(state) == state # "init"

\* sync.Once.Do returns at once when the function has returned (or panicked);
\* while it is running, the other callers wait on the Once's mutex.
OncePasses(state) == state = "done"

\* GetSharedInstance, lines 91-93: enter sharedInstanceOnce.Do.  The first
\* caller runs NewJieba(paths...) inside it; a panic of NewJieba unwinds
\* through Do, which marks the Once done all the same.
CallGetSharedInstance(p, paths) ==
    /\ pc[p] = "idle"
    /\ LET af == sharedInstance # NIL /\ freed[sharedInstance] # 0 IN
       IF OnceRunsFunction(once)
       THEN LET missing == FirstMissing(getDictPaths(paths)) IN
            /\ onceRuns' = onceRuns + 1
            /\ IF missing # NoPath
               THEN /\ once' = "done"
                    /\ Begin(p, "GetSharedInstance", NIL, paths, "done", af, FALSE)
                    /\ Result(p, "panic_missing", "none", missing)
               ELSE /\ CanAllocate
                    /\ once' = "running"
                    /\ Begin(p, "GetSharedInstance", NIL, paths, "nj_native", af, FALSE)
                    /\ UNCHANGED <<outcome, nref, badpath>>
       ELSE /\ IF OncePasses(once)
               THEN Begin(p, "GetSharedInstance", NIL, paths, "gs_rlock", af, FALSE)
               ELSE Begin(p, "GetSharedInstance", NIL, paths, "gs_wait", af, TRUE)
            /\ UNCHANGED <<once, onceRuns, outcome, nref, badpath>>
    /\ UNCHANGED <<heapVars, nativeVars, sharedInstance, readers>>
    /\ UNCHANGED frameVars

\* A caller blocked in Do is released when the function has returned.
OnceWake(p) ==
    /\ pc[p] = "gs_wait"
    /\ OncePasses(once)
    /\ Goto(p, "gs_rlock", x[p])
    /\ UNCHANGED <<heapVars, nativeVars, sharedVars>>
    /\ UNCHANGED frameVars

\* A construction step that leaves the finalizer of NewJieba on the shared
\* instance.
OnceKeepFinalizer(p) ==
    /\ pc[p] = "once_clearfin"
    /\ once' = "done"
    /\ Goto(p, "gs_rlock", x[p])
    /\ UNCHANGED <<heapVars, nativeVars, sharedInstance, onceRuns, readers>>
    /\ UNCHANGED frameVars

\* GetSharedInstance, lines 95-96: runtime.SetFinalizer(sharedInstance, nil),
\* then the function returns and the Once is done.
OnceClearFinalizer(p) ==
    /\ pc[p] = "once_clearfin"
    /\ finalizer' = [finalizer EXCEPT ![sharedInstance] = FALSE]
    /\ once' = "done"
    /\ Goto(p, "gs_rlock", x[p])
    /\ UNCHANGED <<hstate, jieba, freed, finalized, nativeVars, sharedInstance,
                   onceRuns, readers>>
    /\ UNCHANGED frameVars

\* GetSharedInstance, lines 98-99: sharedInstanceLock.RLock().  Nothing in the
\* package takes the write lock, so a reader never waits.
RLock(p) ==
    /\ pc[p] = "gs_rlock"
    /\ readers' = readers \cup {p}
    /\ Goto(p, "gs_check", x[p])
    /\ UNCHANGED <<heapVars, nativeVars, sharedInstance, once, onceRuns>>
    /\ UNCHANGED frameVars

\* A test of the freed flag that never fires.
SharedFreedTestNever(h) == FALSE

\* atomic.LoadInt32(&sharedInstance.freed) != 0, line 101.
SharedFreedTest(h) == freed[h] # 0

\* A check that tests sharedInstance for nil and skips the load of the flag.
CheckSharedNilPasses(p) ==
    /\ pc[p] = "gs_check"
    /\ IF sharedInstance # NIL /\ SharedFreedTest(sharedInstance)
       THEN /\ readers' = readers \ {p}
            /\ Finish(p, NIL, "panic_shared_freed", "none", NoPath)
       ELSE /\ Goto(p, "gs_ret", x[p])
            /\ UNCHANGED <<readers>>
    /\ UNCHANGED <<heapVars, nativeVars, sharedInstance, once, onceRuns>>
    /\ UNCHANGED frameVars

\* GetSharedInstance, lines 101-103: load sharedInstance.freed.  A nil
\* sharedInstance (the Once's function panicked) is a nil dereference; both
\* panics run the deferred RUnlock.
CheckShared(p) ==
    /\ pc[p] = "gs_check"
    /\ IF sharedInstance = NIL
       THEN /\ readers' = readers \ {p}
            /\ Finish(p, NIL, "panic_nil", "none", NoPath)
       ELSE IF SharedFreedTest(sharedInstance)
       THEN /\ readers' = readers \ {p}
            /\ Finish(p, NIL, "panic_shared_freed", "none", NoPath)
       ELSE /\ Goto(p, "gs_ret", x[p])
            /\ UNCHANGED <<readers>>
    /\ UNCHANGED <<heapVars, nativeVars, sharedInstance, once, onceRuns>>
    /\ UNCHANGED frameVars

\* GetSharedInstance, line 105: return sharedInstance, then the deferred
\* RUnlock.  From here on the caller can use the shared handle.
ReturnShared(p) ==
    /\ pc[p] = "gs_ret"
    /\ readers' = readers \ {p}
    /\ hstate' = [hstate EXCEPT ![sharedInstance] = "live"]
    /\ Finish(p, sharedInstance, "ret", "none", NoPath)
    /\ UNCHANGED <<jieba, freed, finalizer, finalized, nativeVars, sharedInstance,
                   once, onceRuns>>
    /\ UNCHANGED frameVars

\* ------------------------------------------------------------------ Free
\* A plain store in place of the compare-and-swap: every caller "wins".
CompareAndSwapAlways(cur, old) == TRUE

\* atomic.CompareAndSwapInt32(&x.freed, 0, 1): does the swap take place?
CompareAndSwapInt32(cur, old) == cur = old

\* Free, lines 108-109: the compare-and-swap.  The loser returns at once.
CallFree(p, h) ==
    /\ pc[p] = "idle"
    /\ hstate[h] = "live"
    /\ IF CompareAndSwapInt32(freed[h], 0)
       THEN /\ freed' = [freed EXCEPT ![h] = 1]
            /\ Begin(p, "Free", h, <<>>, "fr_native", FreeCompleted(h), FALSE)
            /\ UNCHANGED <<outcome, nref, badpath>>
       ELSE /\ Begin(p, "Free", h, <<>>, "done", FreeCompleted(h), FALSE)
            /\ Result(p, "noop", "none", NoPath)
            /\ UNCHANGED <<freed>>
    /\ UNCHANGED <<hstate, jieba, finalizer, finalized, nativeVars, sharedVars>>
    /\ UNCHANGED frameVars

\* A Free that declines to release the engine of the shared instance.
FreeNativeSkipShared(p) ==
    /\ pc[p] = "fr_native"
    /\ LET ref == jieba[x[p]] IN
        released' = IF ref = NULL \/ x[p] = sharedInstance THEN released
                    ELSE [released EXCEPT ![ref] = @ + 1]
    /\ Goto(p, "fr_nil", x[p])
    /\ UNCHANGED <<heapVars, created, sharedPaths, sharedVars>>
    /\ UNCHANGED frameVars

\* A Free with lines 110 and 111 exchanged: the reference is cleared first.
FreeNativeNilFirst(p) ==
    /\ pc[p] = "fr_native"
    /\ jieba' = [jieba EXCEPT ![x[p]] = NULL]
    /\ Goto(p, "fr_nil", x[p])
    /\ UNCHANGED <<hstate, freed, finalizer, finalized, nativeVars, sharedVars>>
    /\ UNCHANGED frameVars

\* Free, line 110: C.FreeJieba(x.jieba).  FreeJieba(NULL) deletes nothing.
FreeNative(p) ==
    /\ pc[p] = "fr_native"
    /\ LET ref == jieba[x[p]] IN
        released' = IF ref = NULL THEN released
                    ELSE [released EXCEPT ![ref] = @ + 1]
    /\ Goto(p, "fr_nil", x[p])
    /\ UNCHANGED <<heapVars, created, sharedPaths, sharedVars>>
    /\ UNCHANGED frameVars

\* A Free that leaves the native reference in place.
FreeNilSkip(p) ==
    /\ pc[p] = "fr_nil"
    /\ Goto(p, "fr_clearfin", x[p])
    /\ UNCHANGED <<heapVars, nativeVars, sharedVars>>
    /\ UNCHANGED frameVars

\* Free, line 111: x.jieba = nil.
FreeNil(p) ==
    /\ pc[p] = "fr_nil"
    /\ jieba' = [jieba EXCEPT ![x[p]] = NULL]
    /\ Goto(p, "fr_clearfin", x[p])
    /\ UNCHANGED <<hstate, freed, finalizer, finalized, nativeVars, sharedVars>>
    /\ UNCHANGED frameVars

\* A Free that returns without clearing the finalizer.
FreeKeepFinalizer(p) ==
    /\ pc[p] = "fr_clearfin"
    /\ Finish(p, x[p], "ret", "none", NoPath)
    /\ UNCHANGED <<heapVars, nativeVars, sharedVars>>
    /\ UNCHANGED frameVars

\* A Free that puts the freed flag back to 0 on its way out.
FreeClearFinalizerResets(p) ==
    /\ pc[p] = "fr_clearfin"
    /\ finalizer' = [finalizer EXCEPT ![x[p]] = FALSE]
    /\ freed' = [freed EXCEPT ![x[p]] = 0]
    /\ Finish(p, x[p], "ret", "none", NoPath)
    /\ UNCHANGED <<hstate, jieba, finalized, nativeVars, sharedVars>>
    /\ UNCHANGED frameVars

\* Free, lines 113-115: runtime.SetFinalizer(x, nil) and the return.
FreeClearFinalizer(p) ==
    /\ pc[p] = "fr_clearfin"
    /\ finalizer' = [finalizer EXCEPT ![x[p]] = FALSE]
    /\ Finish(p, x[p], "ret", "none", NoPath)
    /\ UNCHANGED <<hstate, jieba, freed, finalized, nativeVars, sharedVars>>
    /\ UNCHANGED frameVars

\* --------------------------------------------------------------- queries
\* checkFreed, lines 117-121: does it panic?
checkFreed(h) == freed[h] # 0

\* Cut / CutAll / CutForSearch / Tag, first statement: x.checkFreed().
CallGuarded(p, h, o) ==
    /\ pc[p] = "idle"
    /\ hstate[h] = "live"
    /\ IF checkFreed(h)
       THEN /\ Begin(p, o, h, <<>>, "done", FreeCompleted(h), FALSE)
            /\ Result(p, "panic_freed", "none", NoPath)
       ELSE /\ Begin(p, o, h, <<>>, "q_native", FreeCompleted(h), FALSE)
            /\ UNCHANGED <<outcome, nref, badpath>>
    /\ UNCHANGED <<heapVars, nativeVars, sharedVars>>
    /\ UNCHANGED frameVars

\* A guarded query that clears the handle's native reference when it returns.
GuardedNativeClearsRef(p) ==
    /\ pc[p] = "q_native"
    /\ jieba' = [jieba EXCEPT ![x[p]] = NULL]
    /\ Finish(p, x[p], "ret", RefKind(jieba[x[p]]), NoPath)
    /\ UNCHANGED <<hstate, freed, finalizer, finalized, nativeVars, sharedVars>>
    /\ UNCHANGED frameVars

\* Cut / CutAll / CutForSearch / Tag, the rest: load x.jieba, call the
\* engine with it, convert and release the result, return.
GuardedNative(p) ==
    /\ pc[p] = "q_native"
    /\ Finish(p, x[p], "ret", RefKind(jieba[x[p]]), NoPath)
    /\ UNCHANGED <<heapVars, nativeVars, sharedVars>>
    /\ UNCHANGED frameVars

\* Unguarded operations given the checkFreed of the guarded ones.
CallUnguardedChecked(p, h, o) ==
    /\ pc[p] = "idle"
    /\ hstate[h] = "live"
    /\ Begin(p, o, h, <<>>, "done", FreeCompleted(h), FALSE)
    /\ IF checkFreed(h)
       THEN Result(p, "panic_freed", "none", NoPath)
       ELSE Result(p, "ret", RefKind(jieba[h]), NoPath)
    /\ UNCHANGED <<heapVars, nativeVars, sharedVars>>
    /\ UNCHANGED frameVars

\* Tokenize / Extract / ExtractWithWeight / AddWord / AddWordEx / RemoveWord:
\* no checkFreed; load x.jieba and call the engine with it.
CallUnguarded(p, h, o) ==
    /\ pc[p] = "idle"
    /\ hstate[h] = "live"
    /\ Begin(p, o, h, <<>>, "done", FreeCompleted(h), FALSE)
    /\ Result(p, "ret", RefKind(jieba[h]), NoPath)
    /\ UNCHANGED <<heapVars, nativeVars, sharedVars>>
    /\ UNCHANGED frameVars

\* ------------------------------------------------------- caller and runtime
\* The caller takes the result (or recovers the panic) and is ready for its
\* next call.
Return(p) ==
    /\ pc[p] = "done"
    /\ Begin(p, "none", NIL, <<>>, "idle", FALSE, FALSE)
    /\ Result(p, "none", "none", NoPath)
    /\ UNCHANGED <<heapVars, nativeVars, sharedVars>>
    /\ UNCHANGED frameVars

\* Goroutines executing a function on h hold a reference to it.
InUse(h) == \E p \in Procs : pc[p] \notin {"idle", "done"} /\ x[p] = h

\* The program drops its last reference to a handle.  sharedInstance keeps
\* the shared handle reachable for the life of the process.
Drop(h) ==
    /\ hstate[h] = "live"
    /\ h # sharedInstance
    /\ ~InUse(h)
    /\ hstate' = [hstate EXCEPT ![h] = "garbage"]
    /\ UNCHANGED <<procVars, jieba, freed, finalizer, finalized, nativeVars, sharedVars>>
    /\ UNCHANGED frameVars

\* The garbage collector finds h unreachable with a finalizer set: it clears
\* the finalizer and runs (*Jieba).Free(h) (lines 108-115) on the finalizer
\* goroutine.  No other goroutine can reach h, so the call runs undisturbed.
RunFinalizer(h) ==
    /\ hstate[h] = "garbage"
    /\ finalizer[h]
    /\ finalizer' = [finalizer EXCEPT ![h] = FALSE]
    /\ finalized' = finalized \cup {h}
    /\ IF CompareAndSwapInt32(freed[h], 0)
       THEN /\ freed' = [freed EXCEPT ![h] = 1]
            /\ released' = IF jieba[h] = NULL THEN released
                           ELSE [released EXCEPT ![jieba[h]] = @ + 1]
            /\ jieba' = [jieba EXCEPT ![h] = NULL]
       ELSE UNCHANGED <<freed, released, jieba>>
    /\ UNCHANGED <<procVars, hstate, created, sharedPaths, sharedVars>>
    /\ UNCHANGED frameVars

\* ------------------------------------------------------------ specification
Next ==
    \/ \E p \in Procs, paths \in PathArgs : CallNewJieba(p, paths)
    \/ \E p \in Procs : NativeNewJieba(p)
    \/ \E p \in Procs : SetFinalizerFree(p)
    \/ \E p \in Procs, paths \in PathArgs : CallGetSharedInstance(p, paths)
    \/ \E p \in Procs : OnceWake(p)
    \/ \E p \in Procs : OnceClearFinalizer(p)
    \/ \E p \in Procs : RLock(p)
    \/ \E p \in Procs : CheckShared(p)
    \/ \E p \in Procs : ReturnShared(p)
    \/ \E p \in Procs, h \in Handles : CallFree(p, h)
    \/ \E p \in Procs : FreeNative(p)
    \/ \E p \in Procs : FreeNil(p)
    \/ \E p \in Procs : FreeClearFinalizer(p)
    \/ \E p \in Procs, h \in Handles, o \in GuardedOps : CallGuarded(p, h, o)
    \/ \E p \in Procs : GuardedNative(p)
    \/ \E p \in Procs, h \in Handles, o \in UnguardedOps : CallUnguarded(p, h, o)
    \/ \E p \in Procs : Return(p)
    \/ \E h \in Handles : Drop(h)
    \/ \E h \in Handles : RunFinalizer(h)

Spec == Init /\ [][Next]_vars

\* The runtime runs the finalizer of an unreachable handle sooner or later
\* while the process keeps running.
FairSpec == Spec /\ \A h \in Handles : WF_vars(RunFinalizer(h))

\* ------------------------------------------- one array-returning call
\* The second specification follows one call of an array-returning method
\* through its statements: the C allocations it makes, the deferred calls it
\* registers and runs, and the conversion of the engine's result.  These
\* touch only memory private to the call; what the call reads of the
\* receiver (x.freed, x.jieba) is an input.
MaxRecords == 2        \* records of a result array before its terminator

\* The non-nil char* values of a result array, and what they point to.
CStrs == {1, 2}
CStrContent == <<"jie", "ba">>

\* C.GoString: the Go string with the bytes of the C string; the empty
\* string for a nil pointer.
GoString(cstring) == IF cstring = NULL THEN "" ELSE CStrContent[cstring]

\* struct CWordWeight {char* word; double weight}.  The engine terminates
\* the array with a zeroed record; nothing is assumed of the ones before.
CWordWeight == [word : CStrs \cup {NULL}, weight : {0, 1}]
Terminator == [word |-> NULL, weight |-> 0]
WordWeightArrays ==
    { Append(a, Terminator) :
        a \in UNION { [1..n -> CWordWeight] : n \in 0..MaxRecords } }

\* char** (and Word*) result arrays, terminated by a nil entry.
StringArrays ==
    { Append(a, NULL) :
        a \in UNION { [1..n -> CStrs \cup {NULL}] : n \in 0..MaxRecords } }

\* The arrays the engine can hand back to method o.
NativeArrays(o) ==
    IF o = "ExtractWithWeight" THEN WordWeightArrays ELSE StringArrays

\* A loop test that looks at the weight in place of the word.
WeightIsSet(rec) == rec.weight # 0

\* cwordweights, line 230: (*x).word != nil.
WordIsSet(rec) == rec.word # NULL

\* cwordweights, lines 231-234: WordWeight{C.GoString(x.word), float64(x.weight)}.
WordWeight(rec) == [Word |-> GoString(rec.word), Weight |-> rec.weight]

\* cwordweights, line 236: x advanced by the size of one record.
NextRecord(ptr) == ptr + 1

\* cwordweights, lines 227-239, from the record at ptr with s collected so
\* far: the slice it returns and the position of the record it stopped at.
RECURSIVE cwordweights(_, _, _)
cwordweights(arr, ptr, s) ==
    IF WordIsSet(arr[ptr])
    THEN cwordweights(arr, NextRecord(ptr), Append(s, WordWeight(arr[ptr])))
    ELSE [s |-> s, ptr |-> ptr]

\* cstrings: the strings of a char** array up to its nil entry, in order.
RECURSIVE cstrings(_, _, _)
cstrings(arr, ptr, s) ==
    IF arr[ptr] # NULL
    THEN cstrings(arr, ptr + 1, Append(s, GoString(arr[ptr])))
    ELSE [s |-> s, ptr |-> ptr]

\* convertWords: the tokens of a Word* array up to its end, in order.
convertWords(arr, ptr, s) == cstrings(arr, ptr, s)

\* The statements of method o that allocate, release, call the engine or
\* convert, in source order.
Program(o) ==
    IF o \in GuardedOps
    THEN <<"checkFreed", "CString", "defer free", "native", "defer FreeWords",
           "convert", "return">>
    ELSE IF o = "Tokenize"
    THEN <<"CString", "defer free", "native", "defer FreeWords", "convert",
           "return">>
    ELSE <<"CString", "defer free", "native", "convert", "defer FreeWords",
           "return">>

\* The call is at statement name.
At(name) == status = "running" /\ Program(fn)[stmt] = name

\* A call of method o begins; it will load f from x.freed and find x.jieba
\* pointing to r.
QueryInit ==
    /\ LibInit
    /\ fn \in QueryOps
    /\ stmt = 1
    /\ status = "running"
    /\ rfreed \in {0, 1}
    /\ rref \in {"live", "released", "null"}
    /\ cstrAllocs = 0
    /\ cstrFrees = 0
    /\ words = <<>>
    /\ wordsAllocs = 0
    /\ wordsFrees = 0
    /\ deferred = <<>>
    /\ res = <<>>
    /\ lastRead = 0
    /\ readFreed = FALSE

\* x.checkFreed(), lines 117-121: panic when the flag is set.
CheckFreedStmt ==
    /\ At("checkFreed")
    /\ IF rfreed # 0
       THEN status' = "panicking" /\ UNCHANGED stmt
       ELSE stmt' = stmt + 1 /\ UNCHANGED status
    /\ UNCHANGED <<fn, rfreed, rref, cstrAllocs, cstrFrees, words, wordsAllocs,
                   wordsFrees, deferred, res, lastRead, readFreed>>
    /\ UNCHANGED libVars

\* cstr := C.CString(s).
CString ==
    /\ At("CString")
    /\ cstrAllocs' = cstrAllocs + 1
    /\ stmt' = stmt + 1
    /\ UNCHANGED <<fn, status, rfreed, rref, cstrFrees, words, wordsAllocs,
                   wordsFrees, deferred, res, lastRead, readFreed>>
    /\ UNCHANGED libVars

\* defer C.free(unsafe.Pointer(cstr)).
DeferFree ==
    /\ At("defer free")
    /\ deferred' = <<"free">> \o deferred
    /\ stmt' = stmt + 1
    /\ UNCHANGED <<fn, status, rfreed, rref, cstrAllocs, cstrFrees, words,
                   wordsAllocs, wordsFrees, res, lastRead, readFreed>>
    /\ UNCHANGED libVars

\* words := C.Cut(x.jieba, cstr, ...) and its siblings: the engine returns a
\* terminated array.  With a nil or released engine the behaviour of the
\* native call is undefined: it may return an array all the same.
NativeCall(arr) ==
    /\ At("native")
    /\ words' = arr
    /\ wordsAllocs' = wordsAllocs + 1
    /\ stmt' = stmt + 1
    /\ UNCHANGED <<fn, status, rfreed, rref, cstrAllocs, cstrFrees, wordsFrees,
                   deferred, res, lastRead, readFreed>>
    /\ UNCHANGED libVars

\* ... or the native call on a nil or released engine ends the process.
NativeCrash ==
    /\ At("native")
    /\ rref # "live"
    /\ status' = "crashed"
    /\ UNCHANGED <<fn, stmt, rfreed, rref, cstrAllocs, cstrFrees, words,
                   wordsAllocs, wordsFrees, deferred, res, lastRead, readFreed>>
    /\ UNCHANGED libVars

\* A release of the result array on the spot, in place of the deferred one.
FreeWordsAtOnce ==
    /\ At("defer FreeWords")
    /\ wordsFrees' = wordsFrees + 1
    /\ stmt' = stmt + 1
    /\ UNCHANGED <<fn, status, rfreed, rref, cstrAllocs, cstrFrees, words,
                   wordsAllocs, deferred, res, lastRead, readFreed>>
    /\ UNCHANGED libVars

\* defer C.FreeWords(words) / C.free(unsafe.Pointer(words)) /
\* C.FreeWordWeights(words).
DeferFreeWords ==
    /\ At("defer FreeWords")
    /\ deferred' = <<"FreeWords">> \o deferred
    /\ stmt' = stmt + 1
    /\ UNCHANGED <<fn, status, rfreed, rref, cstrAllocs, cstrFrees, words,
                   wordsAllocs, wordsFrees, res, lastRead, readFreed>>
    /\ UNCHANGED libVars

\* res := cstrings(words) / cwordweights(words) / convertWords(s, words).
Convert ==
    /\ At("convert")
    /\ LET r == IF fn = "ExtractWithWeight" THEN cwordweights(words, 1, <<>>)
                ELSE IF fn = "Tokenize" THEN convertWords(words, 1, <<>>)
                ELSE cstrings(words, 1, <<>>)
       IN /\ res' = r.s
          /\ lastRead' = r.ptr
    /\ readFreed' = (wordsFrees > 0)
    /\ stmt' = stmt + 1
    /\ UNCHANGED <<fn, status, rfreed, rref, cstrAllocs, cstrFrees, words,
                   wordsAllocs, wordsFrees, deferred>>
    /\ UNCHANGED libVars

\* return res: the deferred calls run next.
ReturnStmt ==
    /\ At("return")
    /\ status' = "unwinding"
    /\ UNCHANGED <<fn, stmt, rfreed, rref, cstrAllocs, cstrFrees, words,
                   wordsAllocs, wordsFrees, deferred, res, lastRead, readFreed>>
    /\ UNCHANGED libVars

\* The deferred call registered last runs, on return and on panic alike.
RunDeferred ==
    /\ status \in {"unwinding", "panicking"}
    /\ deferred # <<>>
    /\ IF Head(deferred) = "free"
       THEN cstrFrees' = cstrFrees + 1 /\ UNCHANGED wordsFrees
       ELSE wordsFrees' = wordsFrees + 1 /\ UNCHANGED cstrFrees
    /\ deferred' = Tail(deferred)
    /\ UNCHANGED <<fn, stmt, status, rfreed, rref, cstrAllocs, words,
                   wordsAllocs, res, lastRead, readFreed>>
    /\ UNCHANGED libVars

\* No deferred call is left: the method returns, or the panic leaves it.
Leave ==
    /\ status \in {"unwinding", "panicking"}
    /\ deferred = <<>>
    /\ status' = IF status = "unwinding" THEN "returned" ELSE "panicked"
    /\ UNCHANGED <<fn, stmt, rfreed, rref, cstrAllocs, cstrFrees, words,
                   wordsAllocs, wordsFrees, deferred, res, lastRead, readFreed>>
    /\ UNCHANGED libVars

QueryNext ==
    \/ CheckFreedStmt
    \/ CString
    \/ DeferFree
    \/ \E arr \in NativeArrays(fn) : NativeCall(arr)
    \/ NativeCrash
    \/ DeferFreeWords
    \/ Convert
    \/ ReturnStmt
    \/ RunDeferred
    \/ Leave

QuerySpec == QueryInit /\ [][QueryNext]_vars

\* ================================================================== claims
Finished(p, o) == pc[p] = "done" /\ op[p] = o

\* ----------------------------------------------------------------------- C1
\* At most one C.FreeJieba call is ever made on a handle's engine, and once
\* no winning Free is in flight on a freed handle exactly one has been made.
FreeReleasesOnce ==
    \A h \in Handles :
        /\ released[h] <= 1
        /\ FreeCompleted(h) => released[h] = 1

\* A Free call that starts on a handle whose freed flag is already set is a
\* no-op: it returns in that step and leaves the freed flag, the native
\* reference, the finalizer and the engine untouched.
LaterFreeIsNoOp ==
    \A p \in Procs :
        (pc[p] = "idle" /\ op'[p] = "Free" /\ freed[x'[p]] # 0)
            => /\ pc'[p] = "done"
               /\ outcome'[p] = "noop"
               /\ UNCHANGED <<freed, jieba, finalizer, released>>

\* C1: any number of Free calls on one handle, in any interleaving, cause
\* exactly one native release (FreeJieba); every Free call after the one
\* that won the compare-and-swap is a no-op that changes neither the freed
\* flag nor the native reference.
C1_FreeExactlyOnce == []FreeReleasesOnce /\ [][LaterFreeIsNoOp]_vars

\* Two goroutines have called Free on the same handle; one released the
\* engine, the other was a no-op.
C1_Witness ==
    \E p, q \in Procs :
        /\ Finished(p, "Free") /\ outcome[p] = "ret"
        /\ Finished(q, "Free") /\ outcome[q] = "noop"
        /\ x[p] = x[q]
        /\ released[x[p]] = 1

\* ----------------------------------------------------------------------- C2
\* The Once ran NewJieba at most once; a GetSharedInstance call that has
\* returned did so after the one construction completed and returned the
\* handle stored in sharedInstance; and with the shared instance built and
\* not freed no finished call ended otherwise than by returning it.
SharedBuiltOnce ==
    /\ onceRuns <= 1
    /\ \A p \in Procs :
        Finished(p, "GetSharedInstance") =>
            /\ outcome[p] = "ret" =>
                /\ once = "done"
                /\ onceRuns = 1
                /\ sharedInstance # NIL
                /\ x[p] = sharedInstance
                /\ created[sharedInstance] = 1
            /\ (sharedInstance # NIL /\ freed[sharedInstance] = 0)
                   => outcome[p] = "ret"

\* sharedInstance, once set, is never assigned again.
SharedStable == sharedInstance # NIL => sharedInstance' = sharedInstance

\* C2: GetSharedInstance calls racing before the first construction has
\* completed invoke the native constructor exactly once, none returns before
\* that construction has completed, all return the same handle, and so does
\* every later call.
C2_SharedConstructedOnce == []SharedBuiltOnce /\ [][SharedStable]_vars

\* Two goroutines raced: one ran the construction, the other entered the
\* Once while it was running, and both have returned the same handle.
C2_Witness ==
    \E p, q \in Procs :
        /\ Finished(p, "GetSharedInstance") /\ outcome[p] = "ret" /\ ~raced[p]
        /\ Finished(q, "GetSharedInstance") /\ outcome[q] = "ret" /\ raced[q]
        /\ x[p] = x[q]
        /\ onceRuns = 1

\* ----------------------------------------------------------------------- C3
\* C3: after Free has completed on a handle, every later call of a query
\* operation (Cut, CutAll, CutForSearch, Tag, Tokenize, Extract,
\* ExtractWithWeight) on it panics with use-after-free before any native
\* engine call is made, and never returns a result.
C3_QueryAfterFreePanics ==
    \A p \in Procs :
        (pc[p] = "done" /\ op[p] \in QueryOps /\ afterFree[p])
            => (outcome[p] = "panic_freed" /\ nref[p] = "none")

\* ----------------------------------------------------------------------- C4
\* C4 as stated: Free on the handle returned by GetSharedInstance is rejected
\* or ignored; the shared instance is never moved to the freed state and its
\* native engine is never released.
C4_SharedNeverFreed ==
    sharedInstance # NIL =>
        (freed[sharedInstance] = 0 /\ released[sharedInstance] = 0)

\* A Free call that has won the compare-and-swap and returned has set the
\* freed flag, released the engine once and cleared the native reference,
\* on the shared handle as on any other.
FreeActsOnEveryHandle ==
    \A p \in Procs :
        (Finished(p, "Free") /\ outcome[p] = "ret") =>
            /\ freed[x[p]] = 1
            /\ released[x[p]] = 1
            /\ jieba[x[p]] = NULL

\* The engine of the shared instance is released by line 110 of an explicit
\* Free call on the shared handle and by nothing else.
SharedReleasedByFreeOnly ==
    (sharedInstance # NIL /\ released'[sharedInstance] # released[sharedInstance])
        => \E p \in Procs :
               /\ pc[p] = "fr_native" /\ op[p] = "Free" /\ x[p] = sharedInstance
               /\ pc'[p] = "fr_nil"

\* C4, amended: Free on the handle returned by GetSharedInstance is neither
\* rejected nor ignored; the first such call sets the freed flag and releases
\* the native engine exactly as on a handle created by NewJieba.  The shared
\* instance's engine is released by an explicit Free on it and in no other
\* way.
C4_SharedFreedLikeDirect == []FreeActsOnEveryHandle /\ [][SharedReleasedByFreeOnly]_vars

\* A Free call on the shared handle has returned after releasing its engine.
C4_Witness ==
    \E p \in Procs :
        /\ Finished(p, "Free") /\ outcome[p] = "ret"
        /\ x[p] = sharedInstance
        /\ released[sharedInstance] = 1

\* ----------------------------------------------------------------------- C5
\* C5: in every interleaving of Free with guarded query calls (Cut, CutAll,
\* CutForSearch, Tag) on one handle, no native query call is made with the
\* native reference of a handle whose freed flag is set: the engine handed
\* to the native operation is never a released one (nor the cleared, nil
\* reference).
C5_NoNativeCallAfterFreed ==
    \A p \in Procs :
        (pc[p] = "done" /\ op[p] \in GuardedOps /\ outcome[p] = "ret")
            => nref[p] = "live"

\* ----------------------------------------------------------------------- C6
\* C6: a GetSharedInstance call that starts when the shared instance's freed
\* flag is set never reaches the return statement; it ends in the "Shared
\* Jieba instance has been freed" panic, returns no handle, and does not
\* keep the read lock.
C6_SharedFreedPanics ==
    \A p \in Procs :
        (op[p] = "GetSharedInstance" /\ afterFree[p]) =>
            /\ pc[p] # "gs_ret"
            /\ pc[p] = "done" =>
                /\ outcome[p] = "panic_shared_freed"
                /\ x[p] = NIL
                /\ p \notin readers

\* A call that began after the shared instance was freed has panicked.
C6_Witness ==
    \E p \in Procs :
        /\ Finished(p, "GetSharedInstance") /\ afterFree[p]
        /\ outcome[p] = "panic_shared_freed"
        /\ p \notin readers

\* ----------------------------------------------------------------------- C7
\* While some GetSharedInstance call holds the read lock, no step sets the
\* freed flag of the shared instance or releases its engine.
NoFreeUnderReadLock ==
    (readers # {} /\ sharedInstance # NIL) =>
        /\ freed'[sharedInstance] = freed[sharedInstance]
        /\ released'[sharedInstance] = released[sharedInstance]

\* C7: the freed-check of GetSharedInstance is serialized against a Free of
\* the shared instance: while a call holds the read lock no Free can set the
\* freed flag or release the native engine, so the handle a call returns is
\* still not freed when the call releases the lock.
C7_FreeSerializedWithCheck == [][NoFreeUnderReadLock]_vars

\* ----------------------------------------------------------------------- C8
\* Some resolved dictionary path of the argument list does not exist.
HasMissing(paths) ==
    \E i \in 1..5 : getDictPaths(paths)[i] \notin ExistingFiles

\* path is the first of the resolved paths that does not exist.
IsFirstMissingOf(path, paths) ==
    \E i \in 1..5 :
        /\ getDictPaths(paths)[i] = path
        /\ path \notin ExistingFiles
        /\ \A j \in 1..(i - 1) : getDictPaths(paths)[j] \in ExistingFiles

\* A NewJieba call given a missing file is never at or past the native
\* initializer; it has panicked naming the first missing path and produced
\* no handle.
MissingPathStopsNewJieba ==
    \A p \in Procs :
        (op[p] = "NewJieba" /\ HasMissing(args[p])) =>
            /\ pc[p] = "done"
            /\ outcome[p] = "panic_missing"
            /\ IsFirstMissingOf(badpath[p], args[p])
            /\ x[p] = NIL

\* The step in which NewJieba is called with a missing file makes no native
\* construction call, allocates no handle and registers no finalizer.
MissingPathTouchesNothing ==
    \A p \in Procs :
        (pc[p] = "idle" /\ op'[p] = "NewJieba" /\ HasMissing(args'[p]))
            => UNCHANGED <<created, hstate, jieba, finalizer, sharedInstance>>

\* C8: if any of the five resolved dictionary paths does not exist, NewJieba
\* panics naming the first missing path before the native initializer is
\* called: no native construction, no handle, no finalizer.
C8_MissingPathPanicsFirst == []MissingPathStopsNewJieba /\ [][MissingPathTouchesNothing]_vars

\* NewJieba was given two missing files (7 first, 6 last) and panicked
\* naming 7.
C8_Witness ==
    \E p \in Procs :
        /\ Finished(p, "NewJieba")
        /\ args[p] = <<7, 2, 3, 4, 6>>
        /\ outcome[p] = "panic_missing"
        /\ badpath[p] = 7

\* ----------------------------------------------------------------------- C9
\* C9: a configuration error is recoverable by retrying: a construction
\* attempt made with valid paths -- also one that follows a failed attempt --
\* performs the native construction and returns a handle, through NewJieba
\* and through GetSharedInstance alike (the shared instance not having been
\* freed).
C9_RetryRecovers ==
    \A p \in Procs :
        ( /\ pc[p] = "done"
          /\ op[p] \in {"NewJieba", "GetSharedInstance"}
          /\ ~HasMissing(args[p])
          /\ ~(sharedInstance # NIL /\ freed[sharedInstance] # 0) )
            => (outcome[p] = "ret" /\ x[p] # NIL /\ created[x[p]] = 1)

\* ---------------------------------------------------------------------- C10
\* No engine is released twice, and once the Free call that freed a handle
\* has returned no finalizer is left on the handle.
ReleasedAtMostOnce ==
    \A h \in Handles :
        /\ released[h] <= 1
        /\ FreeCompleted(h) => ~finalizer[h]

\* C10: the engine of a handle created by NewJieba and never shared is
\* released exactly once over any combination of explicit Free calls and the
\* finalizer: never twice, after an explicit Free the finalizer is cleared,
\* and a handle that becomes unreachable without having been freed is
\* eventually released by its finalizer.
C10_ReleasedExactlyOnce ==
    /\ []ReleasedAtMostOnce
    /\ \A h \in Handles :
           (hstate[h] = "garbage" /\ freed[h] = 0)
               ~> (h \in finalized /\ released[h] = 1 /\ freed[h] = 1)

\* The finalizer of an unreachable handle has performed the one release.
C10_Witness ==
    \E h \in Handles :
        /\ hstate[h] = "garbage"
        /\ h \in finalized
        /\ h # sharedInstance
        /\ released[h] = 1
        /\ ~finalizer[h]

\* ---------------------------------------------------------------------- C11
\* Once the construction step of the Once has returned, no finalizer is set
\* on the shared instance, so none is set on a handle GetSharedInstance has
\* returned; and the runtime has never run a finalizer on the shared instance.
SharedFinalizerRemoved ==
    /\ (sharedInstance # NIL /\ once = "done") => ~finalizer[sharedInstance]
    /\ sharedInstance \notin finalized
    /\ \A p \in Procs :
          (Finished(p, "GetSharedInstance") /\ outcome[p] = "ret")
              => (~finalizer[x[p]] /\ x[p] \notin finalized)

\* No step runs the finalizer on the shared instance, and a step that sets
\* its freed flag or releases its engine is a step of a goroutine executing
\* an explicit Free call on it.
SharedTouchedByExplicitFreeOnly ==
    sharedInstance # NIL =>
        /\ sharedInstance \notin finalized'
        /\ ( \/ freed'[sharedInstance] # freed[sharedInstance]
             \/ released'[sharedInstance] # released[sharedInstance] )
               => \E p \in Procs :
                      /\ op'[p] = "Free" /\ x'[p] = sharedInstance
                      /\ pc'[p] # pc[p]

\* C11: the finalizer registered by NewJieba is removed from the shared
\* instance inside the one-time construction step, before any
\* GetSharedInstance call returns; the finalizer never fires on the shared
\* instance, and unless a caller calls Free on it its engine is never
\* released.
C11_SharedFinalizerSuppressed ==
    []SharedFinalizerRemoved /\ [][SharedTouchedByExplicitFreeOnly]_vars

\* The shared instance has been returned with no finalizer and its engine is
\* not released, while the finalizer has run on a handle made by NewJieba.
C11_Witness ==
    \E p \in Procs :
        /\ Finished(p, "GetSharedInstance") /\ outcome[p] = "ret"
        /\ ~finalizer[sharedInstance]
        /\ released[sharedInstance] = 0
        /\ \E h \in Handles : h # sharedInstance /\ h \in finalized

\* ---------------------------------------------------------------------- C12
\* Some step of an explicit Free call, or the finalizer's Free, acts on h.
FreeStepOn(h) ==
    \/ \E p \in Procs : op'[p] = "Free" /\ x'[p] = h /\ pc'[p] # pc[p]
    \/ h \in finalized' /\ h \notin finalized

\* A handle comes into being with freed = 0 and a native reference; from then
\* on a set flag stays set, a cleared reference stays cleared, and the flag
\* changes only from 0 to 1 in a step of Free.
FreedIsTerminal ==
    \A h \in Handles :
        /\ (hstate[h] = "unalloc" /\ hstate'[h] # "unalloc")
               => (freed'[h] = 0 /\ jieba'[h] # NULL)
        /\ hstate[h] # "unalloc" =>
               /\ freed[h] = 1 => freed'[h] = 1
               /\ jieba[h] = NULL => jieba'[h] = NULL
               /\ freed'[h] # freed[h]
                      => (freed[h] = 0 /\ freed'[h] = 1 /\ FreeStepOn(h))

\* C12: the freed state of a handle is monotonic and terminal: every handle
\* starts with freed = 0, the only transition is 0 -> 1 performed by Free,
\* and no operation resets freed to 0 or re-installs a native reference
\* after it has been cleared.
C12_FreedMonotonic ==
    [](\A h \in Handles : freed[h] \in {0, 1}) /\ [][FreedIsTerminal]_vars

\* A freed handle has since been used by a later call and is still freed
\* with its reference cleared.
C12_Witness ==
    \E p \in Procs :
        /\ pc[p] = "done" /\ op[p] \in (QueryOps \cup DictOps \cup {"Free"})
        /\ afterFree[p]
        /\ freed[x[p]] = 1
        /\ jieba[x[p]] = NULL

\* ---------------------------------------------------------------------- C13
\* C13: AddWord, AddWordEx and RemoveWord perform no freed check: called on
\* a handle on which Free has completed they do not panic with
\* use-after-free and make the native dictionary call with the handle's
\* cleared (nil) native reference.
C13_DictOpsUnguarded ==
    \A p \in Procs :
        (pc[p] = "done" /\ op[p] \in DictOps /\ afterFree[p])
            => (outcome[p] = "ret" /\ nref[p] = "null")

\* AddWord has returned from the native call made on a freed handle.
C13_Witness ==
    \E p \in Procs :
        /\ Finished(p, "AddWord") /\ afterFree[p]
        /\ freed[x[p]] = 1
        /\ outcome[p] = "ret" /\ nref[p] = "null"

\* ---------------------------------------------------------------------- C14
\* The shared instance exists only with an engine initialised from five
\* existing paths.
SharedPathsValid ==
    sharedInstance # NIL =>
        (Len(sharedPaths) = 5 /\ FirstMissing(sharedPaths) = NoPath)

\* The path set of the shared instance's engine, once set, never changes.
SharedPathsFixed == sharedPaths # <<>> => sharedPaths' = sharedPaths

\* A GetSharedInstance call made after the Once has started validates
\* nothing, constructs nothing and changes nothing of the shared instance,
\* whatever paths it is given; nor do the steps that follow the Once.
LaterCallIgnoresPaths ==
    \A p \in Procs :
        /\ (pc[p] = "idle" /\ op'[p] = "GetSharedInstance" /\ once # "init")
              => /\ pc'[p] \in {"gs_rlock", "gs_wait"}
                 /\ outcome'[p] = "none"
                 /\ UNCHANGED <<hstate, jieba, freed, finalizer, created,
                                released, sharedPaths, sharedInstance, once,
                                onceRuns>>
        /\ (pc[p] \in {"gs_wait", "gs_rlock", "gs_check", "gs_ret"} /\ pc'[p] # pc[p])
              => UNCHANGED <<jieba, freed, finalizer, created, released,
                             sharedPaths, sharedInstance, once, onceRuns>>

\* C14: the dictionary path set of the shared instance is fixed by the call
\* that performs the first construction; the path arguments of any later
\* GetSharedInstance call are ignored: no path validation, no native
\* construction, no change to the shared instance.
C14_SharedPathsFixedAtFirst ==
    []SharedPathsValid /\ [][SharedPathsFixed /\ LaterCallIgnoresPaths]_vars

\* A later call given a missing file has returned the shared instance, whose
\* engine was initialised with the default paths of the first call.
C14_Witness ==
    \E p \in Procs :
        /\ Finished(p, "GetSharedInstance") /\ outcome[p] = "ret"
        /\ HasMissing(args[p])
        /\ x[p] = sharedInstance
        /\ sharedPaths = DefaultPaths

\* ---------------------------------------------------------------------- C15
\* No call reaches the return statement with sharedInstance nil; a call that
\* returned, returned the shared instance, built by one completed native
\* initialisation; with sharedInstance nil every finished call has panicked
\* and holds no handle.
SharedReturnIsComplete ==
    \A p \in Procs :
        /\ pc[p] = "gs_ret" => sharedInstance # NIL
        /\ Finished(p, "GetSharedInstance") =>
            /\ outcome[p] = "ret" =>
                /\ x[p] # NIL
                /\ x[p] = sharedInstance
                /\ hstate[x[p]] = "live"
                /\ created[x[p]] = 1
                /\ Len(sharedPaths) = 5
            /\ sharedInstance = NIL =>
                /\ outcome[p] \in {"panic_missing", "panic_nil"}
                /\ x[p] = NIL

\* C15: every handle returned by GetSharedInstance is the fully constructed
\* shared instance; no call, racing with the first construction or made
\* after a failed one, returns nil or a handle whose native initialisation
\* did not complete; after a failed construction the call panics.
C15_SharedNeverPartial == SharedReturnIsComplete

\* The first construction failed; a later call with valid paths has panicked
\* on the nil sharedInstance.
C15_Witness ==
    \E p \in Procs :
        /\ Finished(p, "GetSharedInstance")
        /\ ~HasMissing(args[p])
        /\ outcome[p] = "panic_nil"
        /\ sharedInstance = NIL /\ once = "done"

\* ---------------------------------------------------------------------- C16
\* C16: in every array-returning operation that reaches the native call the
\* C string and the result array are each released exactly once, the result
\* array only after the converter has read it and before the operation
\* returns; an operation stopped by the freed guard allocates nothing; no
\* native allocation is leaked or released twice.
C16_NativeAllocationsBalanced ==
    /\ cstrFrees <= cstrAllocs /\ cstrAllocs <= 1
    /\ wordsFrees <= wordsAllocs /\ wordsAllocs <= 1
    /\ ~readFreed
    /\ wordsFrees > 0 => (lastRead > 0 /\ status \in {"unwinding", "returned"})
    /\ status = "returned" =>
          /\ cstrAllocs = 1 /\ cstrFrees = 1
          /\ wordsAllocs = 1 /\ wordsFrees = 1
          /\ lastRead > 0
          /\ deferred = <<>>
    /\ status \in {"panicking", "panicked"} =>
          /\ fn \in GuardedOps /\ rfreed # 0
          /\ cstrAllocs = 0 /\ wordsAllocs = 0
          /\ cstrFrees = 0 /\ wordsFrees = 0
          /\ deferred = <<>>

\* Extract, which registers the release after the conversion, has returned
\* two strings with both allocations released.
C16_Witness ==
    /\ fn = "Extract"
    /\ status = "returned"
    /\ Len(res) = 2
    /\ cstrFrees = 1
    /\ wordsFrees = 1

\* ---------------------------------------------------------------------- C17
\* A step of a goroutine executing a query or dictionary operation (its
\* checkFreed included) leaves every freed flag and native reference as it
\* was; on an allocated handle they change only in a step of Free.
HandleFieldsFramed ==
    /\ \A p \in Procs :
          (pc'[p] # pc[p] /\ op'[p] \in (QueryOps \cup DictOps))
              => UNCHANGED <<freed, jieba>>
    /\ \A h \in Handles :
          ( /\ hstate[h] # "unalloc"
            /\ (freed'[h] # freed[h] \/ jieba'[h] # jieba[h]) )
              => FreeStepOn(h)

\* C17: the query and dictionary operations (Cut, CutAll, CutForSearch, Tag,
\* Tokenize, Extract, ExtractWithWeight, AddWord, AddWordEx, RemoveWord,
\* checkFreed) leave the handle's freed flag and native reference unchanged;
\* Free is the only operation that modifies them.
C17_OnlyFreeWritesHandle == [][HandleFieldsFramed]_vars

\* A query and a dictionary operation have run on one handle, which still
\* has freed = 0 and its native reference.
C17_Witness ==
    \E p, q \in Procs :
        /\ pc[p] = "done" /\ op[p] \in GuardedOps /\ outcome[p] = "ret"
        /\ pc[q] = "done" /\ op[q] \in DictOps /\ outcome[q] = "ret"
        /\ x[p] = x[q]
        /\ freed[x[p]] = 0
        /\ jieba[x[p]] = x[p]

\* ---------------------------------------------------------------------- C18
\* Position of the first record of arr whose word is nil.
FirstNilWord(arr) ==
    CHOOSE i \in 1..Len(arr) :
        arr[i].word = NULL /\ \A j \in 1..(i - 1) : arr[j].word # NULL

\* C18: cwordweights returns exactly the records that precede the first
\* record whose word is nil, as (word, weight) pairs in array order, none
\* skipped or duplicated -- the empty sequence when the first record is the
\* terminator -- and reads no record past that one.
C18_WeightsUpToTerminator ==
    (fn = "ExtractWithWeight" /\ lastRead > 0) =>
        /\ lastRead = FirstNilWord(words)
        /\ Len(res) = lastRead - 1
        /\ \A i \in 1..Len(res) :
              /\ res[i].Word = GoString(words[i].word)
              /\ res[i].Weight = words[i].weight

\* The converter stopped at a nil word in the middle of the array, having
\* returned the one record before it, whose weight is 0.
C18_Witness ==
    /\ fn = "ExtractWithWeight"
    /\ status = "returned"
    /\ Len(words) = 3
    /\ words[2].word = NULL
    /\ words[1] = [word |-> 2, weight |-> 0]
    /\ res = <<[Word |-> "ba", Weight |-> 0]>>
    /\ lastRead = 2

\* ---------------------------------------------------------------------- C19
\* An engine that has been released belongs to a handle whose freed flag is
\* set, and a cleared native reference belongs to a handle whose engine has
\* been released.
FreeOrdering ==
    \A h \in Handles :
        /\ released[h] >= 1 => freed[h] = 1
        /\ (hstate[h] # "unalloc" /\ jieba[h] = NULL) => released[h] >= 1

\* A freed check that passes (checkFreed in a guarded query, line 101 in
\* GetSharedInstance) is made in a state where the engine is not released
\* and the native reference is in place.
CheckPassedSawLiveEngine ==
    \A p \in Procs :
        /\ (pc[p] = "idle" /\ pc'[p] = "q_native")
              => (released[x'[p]] = 0 /\ jieba[x'[p]] = x'[p])
        /\ (pc[p] = "gs_check" /\ pc'[p] = "gs_ret")
              => (released[sharedInstance] = 0 /\ jieba[sharedInstance] = sharedInstance)

\* C19: Free sets the freed flag before it calls the native release and
\* clears the native reference only after it: in every reachable state
\* (release called) implies freed = 1 and (reference cleared) implies
\* (release called); a freed check that observes 0 observes a handle whose
\* engine has not been released at that moment.
C19_FreeOrdering == []FreeOrdering /\ [][CheckPassedSawLiveEngine]_vars

\* A Free call is between the native release and the clearing of the
\* reference.
C19_Witness ==
    \E p \in Procs :
        /\ pc[p] = "fr_nil" /\ op[p] = "Free"
        /\ freed[x[p]] = 1
        /\ released[x[p]] = 1
        /\ jieba[x[p]] # NULL

\* ---------------------------------------------------------------------- C20
\* C20 as stated: whenever any Free call on a handle returns, a call that
\* lost the compare-and-swap race included, the native release of the handle
\* has completed and the native reference has been cleared.
C20_EveryFreeReturnsReleased ==
    \A p \in Procs :
        Finished(p, "Free") => (released[x[p]] = 1 /\ jieba[x[p]] = NULL)

\* C20, amended: when a Free call returns the freed flag is set; the call
\* that won the compare-and-swap returns with the engine released, the
\* reference cleared and the finalizer removed; a call that lost it returns
\* at once, with the release done or the winning call still in flight.
C20_WinnerReturnsReleased ==
    \A p \in Procs :
        Finished(p, "Free") =>
            /\ freed[x[p]] = 1
            /\ outcome[p] \in {"ret", "noop"}
            /\ outcome[p] = "ret" =>
                /\ released[x[p]] = 1
                /\ jieba[x[p]] = NULL
                /\ ~finalizer[x[p]]
                /\ ~afterFree[p]
            /\ outcome[p] = "noop" =>
                \/ released[x[p]] = 1 /\ jieba[x[p]] = NULL
                \/ InFree(x[p])

\* The call that lost the race has returned while the winner has not yet
\* called the native release.
C20_Witness ==
    \E p, q \in Procs :
        /\ Finished(q, "Free") /\ outcome[q] = "noop"
        /\ pc[p] = "fr_native" /\ op[p] = "Free" /\ x[p] = x[q]
        /\ released[x[q]] = 0
        /\ jieba[x[q]] # NULL

====
